---- MODULE Spec2Model ----
(***************************************************************************)
(* The in-memory UEFI variable store of src/varstore.rs: a vector of       *)
(* EfiVariable records, the bootservices_exited flag and the two limits,   *)
(* with request_get, request_get_next and request_set.                     *)
(*                                                                         *)
(* A record is [name, guid, data, attr]: name a string, data a sequence of *)
(* bytes, attr the set of the attribute flags that are set (a bitflags     *)
(* value is the set of its bits).                                          *)
(*                                                                         *)
(* request_get and request_get_next take &self and change nothing: they    *)
(* are operators on the state.  request_set takes &mut self: the operator  *)
(* request_set_result gives its return value and the store it leaves, and  *)
(* the action request_set applies it.                                      *)
(*                                                                         *)
(* get_variable of src/varstore_shim.rs is an operator on the state too,   *)
(* with the caller's arguments as they are after the call in its result.   *)
(*                                                                         *)
(* The decoder of src/edk2.rs, EDK2VariableStore::from_bytes, reads an     *)
(* image that is a header and a variable area of cells; SpecDecode draws   *)
(* the image from Images and applies from_bytes to it.                     *)
(***************************************************************************)
EXTENDS Integers, Sequences, FiniteSets, TLC

\* ---------------------------------------------------------------- bounds
\* The store holds at most MaxVars records in the model (Vec is unbounded).
MaxVars == 2

\* ------------------------------------------------------------- vocabulary
RUNTIME_ACCESS == "RUNTIME_ACCESS"
BOOTSERVICE_ACCESS == "BOOTSERVICE_ACCESS"
APPEND_WRITE == "APPEND_WRITE"
HARDWARE_ERROR_RECORD == "HARDWARE_ERROR_RECORD"
AUTHENTICATED_WRITE_ACCESS == "AUTHENTICATED_WRITE_ACCESS"
TIME_BASED_AUTHENTICATED_WRITE_ACCESS == "TIME_BASED_AUTHENTICATED_WRITE_ACCESS"
ENHANCED_AUTHENTICATED_ACCESS == "ENHANCED_AUTHENTICATED_ACCESS"

SUCCESS == "SUCCESS"
INVALID_PARAMETER == "INVALID_PARAMETER"
UNSUPPORTED == "UNSUPPORTED"
SECURITY_VIOLATION == "SECURITY_VIOLATION"
NOT_FOUND == "NOT_FOUND"

DEFAULT_NAMESPACE_GUID == "8be4df61-93ca-11d2-aa0d-00e098032b8c"
TESTING_GUID == "a634888c-e878-4151-aef2-54135322fd0b"

\* The limits the store is created with: Varstore::with_limits(1, 1).
max_name_length == 1
max_data_length == 1

\* ------------------------------------------------------------ the inputs
\* The identities the calls name: the empty name, one name under both GUIDs,
\* and a name longer than max_name_length (String::len counts bytes).
Names == {"", "a", "bb"}
Guids == {DEFAULT_NAMESPACE_GUID, TESTING_GUID}
Idents ==
    { <<"", TESTING_GUID>>, <<"a", TESTING_GUID>>,
      <<"a", DEFAULT_NAMESPACE_GUID>>, <<"bb", TESTING_GUID>> }
\* Data of length 0 .. max_data_length + 1.
Datas == {<<>>, <<1>>, <<2>>, <<1, 2>>}
\* The four attribute sets request_set accepts with BOOTSERVICE_ACCESS, and
\* one attribute set for each status the attribute checks return.
Attrs ==
    { {BOOTSERVICE_ACCESS},
      {BOOTSERVICE_ACCESS, RUNTIME_ACCESS},
      {BOOTSERVICE_ACCESS, APPEND_WRITE},
      {BOOTSERVICE_ACCESS, RUNTIME_ACCESS, APPEND_WRITE},
      {RUNTIME_ACCESS},
      {BOOTSERVICE_ACCESS, AUTHENTICATED_WRITE_ACCESS},
      {BOOTSERVICE_ACCESS, TIME_BASED_AUTHENTICATED_WRITE_ACCESS,
       ENHANCED_AUTHENTICATED_ACCESS} }

EfiVariable ==
    { [name |-> id[1], guid |-> id[2], data |-> d, attr |-> a] :
          id \in Idents, d \in Datas, a \in Attrs }

\* ----------------------------------------------------------------- state
VARIABLES
    variables,            \* Varstore.variables: Vec<EfiVariable>
    bootservices_exited,  \* Varstore.bootservices_exited
    edk2bytes,            \* the image handed to EDK2VariableStore::from_bytes
    parsed                \* what from_bytes made of it

vars == <<variables, bootservices_exited, edk2bytes, parsed>>

\* The state of the decoder while no image is decoded.
NoImage == "no image"
NotParsed ==
    [status |-> "not parsed", vars |-> <<>>,
     store |-> [Header |-> <<>>, Variables |-> <<>>]]

NoVar == [name |-> "", guid |-> "", data |-> <<>>, attr |-> {}]

\* ------------------------------------------------------- pure operations
\* get with the search starting after the first record.
get_skip_first(vs, name, guid) ==
    IF \E i \in 2..Len(vs) : vs[i].name = name /\ vs[i].guid = guid
    THEN CHOOSE i \in 2..Len(vs) :
            /\ vs[i].name = name /\ vs[i].guid = guid
            /\ \A j \in 2..(i - 1) : ~(vs[j].name = name /\ vs[j].guid = guid)
    ELSE 0

\* Vec::iter().find(..): the index of the first record with the identity,
\* 0 for None.
get(vs, name, guid) ==
    IF \E i \in 1..Len(vs) : vs[i].name = name /\ vs[i].guid = guid
    THEN CHOOSE i \in 1..Len(vs) :
            /\ vs[i].name = name /\ vs[i].guid = guid
            /\ \A j \in 1..(i - 1) : ~(vs[j].name = name /\ vs[j].guid = guid)
    ELSE 0

\* Vec::iter().position(..): the first index whose record has the identity,
\* 0 for None.
get_index(vs, name, guid) ==
    IF \E i \in 1..Len(vs) : vs[i].name = name /\ vs[i].guid = guid
    THEN CHOOSE i \in 1..Len(vs) :
            /\ vs[i].name = name /\ vs[i].guid = guid
            /\ \A j \in 1..(i - 1) : ~(vs[j].name = name /\ vs[j].guid = guid)
    ELSE 0

\* Vec::pop() in the place of Vec::remove(index).
remove_last(vs, index) ==
    [i \in 1..(Len(vs) - 1) |-> vs[i]]

\* Vec::remove(index): the later records shift down.
remove(vs, index) ==
    [i \in 1..(Len(vs) - 1) |-> IF i < index THEN vs[i] ELSE vs[i + 1]]

\* request_get without the check of bootservices_exited.
request_get_no_phase(vs, exited, name, guid) ==
    IF name = "" THEN [status |-> INVALID_PARAMETER, var |-> NoVar]
    ELSE LET var == get(vs, name, guid) IN
         IF var = 0
         THEN [status |-> NOT_FOUND, var |-> NoVar]
         ELSE [status |-> SUCCESS, var |-> vs[var]]

\* request_get with the empty name searched like any other name.
request_get_empty_searched(vs, exited, name, guid) ==
    LET var == get(vs, name, guid) IN
    IF var # 0 /\ exited /\ RUNTIME_ACCESS \notin vs[var].attr
    THEN [status |-> NOT_FOUND, var |-> NoVar]
    ELSE IF var = 0
    THEN [status |-> NOT_FOUND, var |-> NoVar]
    ELSE [status |-> SUCCESS, var |-> vs[var]]

\* request_get: [status, var].
request_get_result(vs, exited, name, guid) ==
    IF name = "" THEN [status |-> INVALID_PARAMETER, var |-> NoVar]
    ELSE LET var == get(vs, name, guid) IN
         IF var # 0 /\ exited /\ RUNTIME_ACCESS \notin vs[var].attr
         THEN [status |-> NOT_FOUND, var |-> NoVar]
         ELSE IF var = 0
         THEN [status |-> NOT_FOUND, var |-> NoVar]
         ELSE [status |-> SUCCESS, var |-> vs[var]]

\* request_get_next with the cursor searched by name alone.
request_get_next_by_name(vs, name, guid) ==
    IF name = ""
    THEN IF Len(vs) > 0 THEN [kind |-> "Found", var |-> vs[1]]
         ELSE [kind |-> "EndReached", var |-> NoVar]
    ELSE IF \A i \in 1..Len(vs) : vs[i].name # name
    THEN [kind |-> "Invalid", var |-> NoVar]
    ELSE LET current == CHOOSE i \in 1..Len(vs) :
                            /\ vs[i].name = name
                            /\ \A j \in 1..(i - 1) : vs[j].name # name
         IN
         IF current + 1 <= Len(vs)
         THEN [kind |-> "Found", var |-> vs[current + 1]]
         ELSE [kind |-> "EndReached", var |-> NoVar]

\* request_get_next: [kind, var], kind one of Found, EndReached, Invalid.
\* skip_while(..) stops at the first record with the identity.
request_get_next_result(vs, name, guid) ==
    IF name = ""
    THEN IF Len(vs) > 0 THEN [kind |-> "Found", var |-> vs[1]]
         ELSE [kind |-> "EndReached", var |-> NoVar]
    ELSE LET current == get_index(vs, name, guid) IN
         IF current = 0 THEN [kind |-> "Invalid", var |-> NoVar]
         ELSE IF current + 1 <= Len(vs)
         THEN [kind |-> "Found", var |-> vs[current + 1]]
         ELSE [kind |-> "EndReached", var |-> NoVar]

\* What request_set returns with the flag of a newly created store.
Returned_flag_reset(s, vs, exited) ==
    [status |-> s, variables |-> vs, bootservices_exited |-> FALSE]

\* What request_set returns and the Varstore it leaves.
Returned(s, vs, exited) ==
    [status |-> s, variables |-> vs, bootservices_exited |-> exited]

\* The checks without the one on the two authentication bits together.
validate_no_combination(data) ==
    IF Len(data.name) > max_name_length THEN INVALID_PARAMETER
    ELSE IF Len(data.data) > max_data_length THEN INVALID_PARAMETER
    ELSE IF HARDWARE_ERROR_RECORD \in data.attr THEN INVALID_PARAMETER
    ELSE IF AUTHENTICATED_WRITE_ACCESS \in data.attr THEN UNSUPPORTED
    ELSE IF ENHANCED_AUTHENTICATED_ACCESS \in data.attr THEN UNSUPPORTED
    ELSE IF TIME_BASED_AUTHENTICATED_WRITE_ACCESS \in data.attr
         THEN UNSUPPORTED
    ELSE IF RUNTIME_ACCESS \in data.attr /\ BOOTSERVICE_ACCESS \notin data.attr
         THEN INVALID_PARAMETER
    ELSE SUCCESS

\* The checks with the one on the two authentication bits together moved
\* before the one on AUTHENTICATED_WRITE_ACCESS.
validate_combination_first(data) ==
    IF Len(data.name) > max_name_length THEN INVALID_PARAMETER
    ELSE IF Len(data.data) > max_data_length THEN INVALID_PARAMETER
    ELSE IF HARDWARE_ERROR_RECORD \in data.attr THEN INVALID_PARAMETER
    ELSE IF {TIME_BASED_AUTHENTICATED_WRITE_ACCESS,
             ENHANCED_AUTHENTICATED_ACCESS} \subseteq data.attr
         THEN SECURITY_VIOLATION
    ELSE IF AUTHENTICATED_WRITE_ACCESS \in data.attr THEN UNSUPPORTED
    ELSE IF ENHANCED_AUTHENTICATED_ACCESS \in data.attr THEN UNSUPPORTED
    ELSE IF TIME_BASED_AUTHENTICATED_WRITE_ACCESS \in data.attr
         THEN UNSUPPORTED
    ELSE IF RUNTIME_ACCESS \in data.attr /\ BOOTSERVICE_ACCESS \notin data.attr
         THEN INVALID_PARAMETER
    ELSE SUCCESS

\* The checks without the one on RUNTIME_ACCESS without BOOTSERVICE_ACCESS.
validate_no_runtime_check(data) ==
    IF Len(data.name) > max_name_length THEN INVALID_PARAMETER
    ELSE IF Len(data.data) > max_data_length THEN INVALID_PARAMETER
    ELSE IF HARDWARE_ERROR_RECORD \in data.attr THEN INVALID_PARAMETER
    ELSE IF AUTHENTICATED_WRITE_ACCESS \in data.attr THEN UNSUPPORTED
    ELSE IF {TIME_BASED_AUTHENTICATED_WRITE_ACCESS,
             ENHANCED_AUTHENTICATED_ACCESS} \subseteq data.attr
         THEN SECURITY_VIOLATION
    ELSE IF ENHANCED_AUTHENTICATED_ACCESS \in data.attr THEN UNSUPPORTED
    ELSE IF TIME_BASED_AUTHENTICATED_WRITE_ACCESS \in data.attr
         THEN UNSUPPORTED
    ELSE SUCCESS

\* The checks of request_set on the incoming record alone: the status of the
\* first check that fails, SUCCESS when none does.
validate(data) ==
    IF Len(data.name) > max_name_length THEN INVALID_PARAMETER
    ELSE IF Len(data.data) > max_data_length THEN INVALID_PARAMETER
    ELSE IF HARDWARE_ERROR_RECORD \in data.attr THEN INVALID_PARAMETER
    ELSE IF AUTHENTICATED_WRITE_ACCESS \in data.attr THEN UNSUPPORTED
    ELSE IF {TIME_BASED_AUTHENTICATED_WRITE_ACCESS,
             ENHANCED_AUTHENTICATED_ACCESS} \subseteq data.attr
         THEN SECURITY_VIOLATION
    ELSE IF ENHANCED_AUTHENTICATED_ACCESS \in data.attr THEN UNSUPPORTED
    ELSE IF TIME_BASED_AUTHENTICATED_WRITE_ACCESS \in data.attr
         THEN UNSUPPORTED
    ELSE IF RUNTIME_ACCESS \in data.attr /\ BOOTSERVICE_ACCESS \notin data.attr
         THEN INVALID_PARAMETER
    ELSE SUCCESS

\* The comparison of the attributes with APPEND_WRITE left out of it.
attr_changed_but_append(exist, new_var) ==
    exist.attr \ {APPEND_WRITE} # new_var.attr \ {APPEND_WRITE}

\* `exist.attr != new_var.attr`: the incoming attributes, APPEND_WRITE
\* included, are compared with the stored ones.
attr_changed(exist, new_var) ==
    exist.attr # new_var.attr

\* The runtime check on BOOTSERVICE_ACCESS in the place of RUNTIME_ACCESS.
runtime_locked_wrong_flag(exited, new_var) ==
    exited /\ BOOTSERVICE_ACCESS \notin new_var.attr

\* `self.bootservices_exited && !new_var.attr.contains(RUNTIME_ACCESS)`
runtime_locked(exited, new_var) ==
    exited /\ RUNTIME_ACCESS \notin new_var.attr

\* The branch for a stored identity with every write an append: the stored
\* data is the old data followed by the incoming data.
update_existing_concat(vs, exited, data, old_var) ==
    LET exist == vs[old_var]
        index == get_index(vs, data.name, data.guid)
    IN
    IF attr_changed(exist, data)
    THEN Returned(INVALID_PARAMETER, vs, exited)
    ELSE IF runtime_locked(exited, data)
    THEN Returned(INVALID_PARAMETER, vs, exited)
    ELSE IF exist.data \o data.data = <<>>
    THEN Returned(SUCCESS, vs, exited)
    ELSE Returned(SUCCESS,
                  [vs EXCEPT ![index] =
                      [data EXCEPT !.attr = @ \ {APPEND_WRITE},
                                   !.data = exist.data \o data.data]],
                  exited)

\* The branch of request_set for an identity that is stored at old_var
\* (`if let Some(exist) = old_var`).  The record stored in the end is `data`,
\* which holds the incoming data; the concatenation is in new_var, which is
\* only tested for emptiness.
update_existing(vs, exited, data, old_var) ==
    LET new_var == data
        exist == vs[old_var]
    IN
    IF attr_changed(exist, new_var)
    THEN Returned(INVALID_PARAMETER, vs, exited)
    ELSE IF runtime_locked(exited, new_var)
    THEN Returned(INVALID_PARAMETER, vs, exited)
    ELSE
      LET append == APPEND_WRITE \in data.attr
          \* data.attr.remove(APPEND_WRITE)
          data_stored == IF append
                         THEN [data EXCEPT !.attr = @ \ {APPEND_WRITE}]
                         ELSE data
          \* old_data.append(&mut new_var.data); new_var.data = old_data
          new_var_data == IF append THEN exist.data \o new_var.data
                          ELSE new_var.data
          index == get_index(vs, data.name, data.guid)
      IN
      IF append /\ new_var_data = <<>>
      THEN Returned(SUCCESS, vs, exited)
      ELSE IF new_var_data = <<>>
      THEN Returned(SUCCESS, remove(vs, index), exited)
      \* self.variables[index] = data
      ELSE Returned(SUCCESS, [vs EXCEPT ![index] = data_stored], exited)

\* request_set with the push of a new identity before the checks on it.
request_set_push_first(vs, exited, var_in) ==
    LET data == var_in
        checked == validate(data)
        old_var == get(vs, data.name, data.guid)
    IN
    IF old_var # 0
    THEN IF checked # SUCCESS THEN Returned(checked, vs, exited)
         ELSE update_existing(vs, exited, data, old_var)
    ELSE Returned(checked, Append(vs, data), exited)

\* request_set: [status, variables, bootservices_exited], the return value
\* and the Varstore after the call.
request_set_result(vs, exited, var_in) ==
    LET data == var_in
        checked == validate(data)
    IN
    IF checked # SUCCESS THEN Returned(checked, vs, exited)
    ELSE
      LET old_var == get(vs, data.name, data.guid) IN
      IF old_var # 0
      THEN update_existing(vs, exited, data, old_var)
      \* self.variables.push(new_var)
      ELSE Returned(SUCCESS, Append(vs, data), exited)

\* request_query_variable_info: always UNSUPPORTED, the Varstore untouched.
request_query_variable_info_result(vs, exited) ==
    Returned(UNSUPPORTED, vs, exited)

\* ------------------------------------------------------ the C style shim
BUFFER_TOO_SMALL == "BUFFER_TOO_SMALL"
\* The outcome of a call that panics instead of returning a status.
Panicked == "panicked"

\* Option<&mut EfiAttributes> and Option<&mut [u8]>.
NoAttributes == [some |-> FALSE, val |-> {}]
NoData == [some |-> FALSE, val |-> <<>>]
Some(v) == [some |-> TRUE, val |-> v]

\* What get_variable returns and what it leaves in the caller's arguments.
Got(s, attributes, data, data_size) ==
    [status |-> s, attributes |-> attributes, data |-> data,
     data_size |-> data_size]

\* get_variable with data_size left as the caller passed it.
get_variable_size_kept(vs, exited, name, vendor_guid, attributes, data, data_size) ==
    LET var == request_get_result(vs, exited, name, vendor_guid) IN
    IF var.status # SUCCESS
    THEN Got(var.status, attributes, data, data_size)
    ELSE
      LET attributes_out ==
              IF attributes.some THEN Some(var.var.attr \ {APPEND_WRITE})
              ELSE attributes
      IN
      IF data_size < Len(var.var.data)
      THEN Got(BUFFER_TOO_SMALL, attributes_out, data, data_size)
      ELSE IF ~data.some
      THEN Got(INVALID_PARAMETER, attributes_out, data, data_size)
      ELSE IF Len(data.val) # data_size
      THEN Got(INVALID_PARAMETER, attributes_out, data, data_size)
      ELSE IF Len(data.val) # Len(var.var.data)
      THEN Got(Panicked, attributes_out, data, data_size)
      ELSE Got(SUCCESS, attributes_out, Some(var.var.data), data_size)

\* get_variable without the removal of APPEND_WRITE.
get_variable_append_kept(vs, exited, name, vendor_guid, attributes, data, data_size) ==
    LET var == request_get_result(vs, exited, name, vendor_guid) IN
    IF var.status # SUCCESS
    THEN Got(var.status, attributes, data, data_size)
    ELSE
      LET attributes_out ==
              IF attributes.some THEN Some(var.var.attr) ELSE attributes
      IN
      IF data_size < Len(var.var.data)
      THEN Got(BUFFER_TOO_SMALL, attributes_out, data, Len(var.var.data))
      ELSE IF ~data.some
      THEN Got(INVALID_PARAMETER, attributes_out, data, data_size)
      ELSE IF Len(data.val) # data_size
      THEN Got(INVALID_PARAMETER, attributes_out, data, data_size)
      ELSE IF Len(data.val) # Len(var.var.data)
      THEN Got(Panicked, attributes_out, data, Len(var.var.data))
      ELSE Got(SUCCESS, attributes_out, Some(var.var.data),
               Len(var.var.data))

\* get_variable: [status, attributes, data, data_size].  The attributes are
\* written before the checks of the buffer; copy_from_slice panics when the
\* buffer and the stored data differ in length, after data_size is written.
get_variable_result(vs, exited, name, vendor_guid, attributes, data, data_size) ==
    LET var == request_get_result(vs, exited, name, vendor_guid) IN
    IF var.status # SUCCESS
    THEN Got(var.status, attributes, data, data_size)
    ELSE
      LET attributes_out ==
              IF attributes.some THEN Some(var.var.attr \ {APPEND_WRITE})
              ELSE attributes
      IN
      IF data_size < Len(var.var.data)
      THEN Got(BUFFER_TOO_SMALL, attributes_out, data, Len(var.var.data))
      ELSE IF ~data.some
      THEN Got(INVALID_PARAMETER, attributes_out, data, data_size)
      ELSE IF Len(data.val) # data_size
      THEN Got(INVALID_PARAMETER, attributes_out, data, data_size)
      ELSE IF Len(data.val) # Len(var.var.data)
      THEN Got(Panicked, attributes_out, data, Len(var.var.data))
      ELSE Got(SUCCESS, attributes_out, Some(var.var.data),
               Len(var.var.data))

\* -------------------------------------------------- the EDK2 store decoder
\* EDK2VaribleState.
IN_DELETED_TRANSITION == 254
DELETED == 253
HEADER_VALID_ONLY == 127
VAR_ADDED == 63
ADDED_AND_DELETED == 60

\* What the header is asserted against.
FS_GUID == "fff12b8d-7696-4c8b-a985-2747075b4f50"
VS_GUID == "aaf32c78-947b-439a-a180-2e144ec37792"
FVH == "_FVH"
HEADER_LENGTH == 72
REVISION == 2
\* EDK2Variable.Signature, 0x55aa.
VARIABLE_SIGNATURE == 21930
\* The bit positions EDK2FirmwareVolume2Attributes defines: 0x1 .. 0x80,
\* 0x200 .. 0x8000, ALIGNMENT (0x001F0000) and WEAK_ALIGNMENT (0x80000000).
KnownVolumeBits == (0..7) \cup (9..20) \cup {31}
\* The bytes of the fields of EDK2Variable before Name.
VARIABLE_FIXED_BYTES == 60
\* The divisor of `count = Header.VariableSize / 725`.
ASSUMED_VARIABLE_BYTES == 725

\* The variable area is a sequence of cells: "variable" for the fixed
\* fields of one EDK2Variable, "u16" for one code unit of a name, "u8" for
\* one byte of data or padding, "free" for the erased rest of the area.
Cell(kind, val) == [kind |-> kind, val |-> val]

\* The code units of the names and the characters they stand for.
NUL == 0
Char(u) == CASE u = 97 -> "a" [] u = 98 -> "b" [] OTHER -> "?"

\* CString16::to_string: the characters before the NUL.
RECURSIVE to_string(_)
to_string(units) ==
    IF units = <<>> \/ Head(units) = NUL THEN ""
    ELSE Char(Head(units)) \o to_string(Tail(units))

\* CString16::try_from(Vec<u16>) succeeds for a sequence that ends with its
\* only NUL.
is_cstring16(units) ==
    /\ Len(units) > 0
    /\ \A k \in 1..Len(units) : (units[k] = NUL) <=> (k = Len(units))

\* A failed read.
Failed == [ok |-> FALSE]

\* n cells of one kind from index i on: their values, or Failed when the
\* area ends or holds another kind of cell there.
read_cells(area, i, kind, n) ==
    IF i + n - 1 <= Len(area) /\ \A k \in i..(i + n - 1) : area[k].kind = kind
    THEN [ok |-> TRUE, val |-> [k \in 1..n |-> area[i + k - 1].val]]
    ELSE Failed

\* BinRead for EDK2Variable at cell i, byte offset off of the area: the
\* record with the index and offset behind it, or Failed.
read_variable(area, i, off) ==
    LET pad == (4 - (off % 4)) % 4
        align == read_cells(area, i, "u8", pad)
        fixed == read_cells(area, i + pad, "variable", 1)
    IN
    IF ~align.ok \/ ~fixed.ok THEN Failed
    ELSE
      LET f == fixed.val[1]
          name == read_cells(area, i + pad + 1, "u16", f.Namelen \div 2)
          data == read_cells(area, i + pad + 1 + (f.Namelen \div 2), "u8",
                             f.Datalen)
      IN
      IF f.Signature # VARIABLE_SIGNATURE THEN Failed
      ELSE IF ~name.ok \/ ~is_cstring16(name.val) THEN Failed
      ELSE IF ~data.ok THEN Failed
      ELSE [ok |-> TRUE,
            var |-> [Status |-> f.Status, Attributes |-> f.Attributes,
                     Namelen |-> f.Namelen, Datalen |-> f.Datalen,
                     Guid |-> f.Guid, Name |-> name.val, Data |-> data.val],
            i |-> i + pad + 1 + (f.Namelen \div 2) + f.Datalen,
            off |-> off + pad + VARIABLE_FIXED_BYTES
                        + 2 * (f.Namelen \div 2) + f.Datalen]

\* `#[br(count = ..)] Variables: Vec<EDK2Variable>`: count records read one
\* after the other from cell i on; Failed when one of them fails.
RECURSIVE read_variables(_, _, _, _)
read_variables(area, i, off, count) ==
    IF count = 0 THEN [ok |-> TRUE, val |-> <<>>]
    ELSE LET first == read_variable(area, i, off) IN
         IF ~first.ok THEN Failed
         ELSE LET rest == read_variables(area, first.i, first.off, count - 1)
              IN IF ~rest.ok THEN Failed
                 ELSE [ok |-> TRUE, val |-> <<first.var>> \o rest.val]

\* The assertions of BinRead for EDK2VariableHeader, and from_bits on the
\* attribute word of the volume.
header_ok(Header) ==
    /\ \A k \in 1..Len(Header.ZeroVector) : Header.ZeroVector[k] = 0
    /\ Header.FSGuid = FS_GUID
    /\ Header.Signatur = FVH
    /\ Header.Attributes \subseteq KnownVolumeBits
    /\ Header.HeaderLength = HEADER_LENGTH
    /\ Header.Revision = REVISION
    /\ Header.VSGuid = VS_GUID

\* BinRead for EDK2VariableStore: the header, then
\* Header.VariableSize / 725 records.
read_store(bytes) ==
    IF ~header_ok(bytes.Header) THEN Failed
    ELSE LET Variables ==
                 read_variables(bytes.area, 1, 0,
                     bytes.Header.VariableSize \div ASSUMED_VARIABLE_BYTES)
         IN IF ~Variables.ok THEN Failed
            ELSE [ok |-> TRUE,
                  store |-> [Header |-> bytes.Header,
                             Variables |-> Variables.val]]

\* The native record of a parsed one.
to_efi_variable(var) ==
    [name |-> to_string(var.Name), guid |-> var.Guid, data |-> var.Data,
     attr |-> var.Attributes]

\* The records that pass the filter of from_bytes, converted, in order.
RECURSIVE active(_)
active(Variables) ==
    IF Variables = <<>> THEN <<>>
    ELSE IF Head(Variables).Status # VAR_ADDED THEN active(Tail(Variables))
    ELSE <<to_efi_variable(Head(Variables))>> \o active(Tail(Variables))

\* The two ends of from_bytes: Ok((vars, store)), and no value at all.
Ok == "Ok"
NoStore == [Header |-> <<>>, Variables |-> <<>>]

\* from_bytes with every record that is not DELETED taken as active.
from_bytes_not_deleted(edk2) ==
    LET store == read_store(edk2) IN
    IF ~store.ok THEN [status |-> Panicked, vars |-> <<>>, store |-> NoStore]
    ELSE [status |-> Ok,
          vars |-> LET kept == SelectSeq(store.store.Variables,
                                         LAMBDA v : v.Status # DELETED)
                   IN [k \in 1..Len(kept) |-> to_efi_variable(kept[k])],
          store |-> store.store]

\* from_bytes: Ok((vars, store)), or the panic of unwrap() on the error of
\* the read.
from_bytes_result(edk2) ==
    LET store == read_store(edk2) IN
    IF ~store.ok THEN [status |-> Panicked, vars |-> <<>>, store |-> NoStore]
    ELSE [status |-> Ok, vars |-> active(store.store.Variables),
          store |-> store.store]

\* ---------------------------------------------------------------- actions
\* Varstore::with_limits: an empty store before ExitBootServices.
Init ==
    /\ variables = <<>>
    /\ bootservices_exited = FALSE
    /\ edk2bytes = NoImage
    /\ parsed = NotParsed

request_set(var_in) ==
    LET res == request_set_result(variables, bootservices_exited, var_in) IN
    /\ Len(res.variables) <= MaxVars
    /\ variables' = res.variables
    /\ bootservices_exited' = res.bootservices_exited
    /\ UNCHANGED <<edk2bytes, parsed>>

\* The owner of the store sets the flag at ExitBootServices.
exit_bootservices ==
    /\ ~bootservices_exited
    /\ bootservices_exited' = TRUE
    /\ UNCHANGED <<variables, edk2bytes, parsed>>

Next ==
    \/ \E var_in \in EfiVariable : request_set(var_in)
    \/ exit_bootservices

Spec == Init /\ [][Next]_vars

\* ------------------------------------- the calls with every attribute bit
\* The attribute bits request_set reads.
AllAttributes ==
    { RUNTIME_ACCESS, BOOTSERVICE_ACCESS, APPEND_WRITE, HARDWARE_ERROR_RECORD,
      AUTHENTICATED_WRITE_ACCESS, TIME_BASED_AUTHENTICATED_WRITE_ACCESS,
      ENHANCED_AUTHENTICATED_ACCESS }

\* One name under both GUIDs and a name longer than max_name_length; data
\* of length 0 .. max_data_length + 1; every combination of attribute bits.
IdentsAttr ==
    { <<"a", TESTING_GUID>>, <<"a", DEFAULT_NAMESPACE_GUID>>,
      <<"bb", TESTING_GUID>> }
DatasAttr == {<<>>, <<1>>, <<1, 2>>}
EfiVariableAttr ==
    { [name |-> id[1], guid |-> id[2], data |-> d, attr |-> a] :
          id \in IdentsAttr, d \in DatasAttr, a \in SUBSET AllAttributes }

NextAttr ==
    \/ \E var_in \in EfiVariableAttr : request_set(var_in)
    \/ exit_bootservices

SpecAttr == Init /\ [][NextAttr]_vars

\* --------------------------------------------------- the images decoded
\* The most records an image holds.
MaxRecords == 2

\* The records the images are built from: two names and two payloads of
\* different lengths, every state of EDK2VaribleState.
States ==
    {IN_DELETED_TRANSITION, DELETED, HEADER_VALID_ONLY, VAR_ADDED,
     ADDED_AND_DELETED}
Records ==
    { [Status |-> s, Attributes |-> {BOOTSERVICE_ACCESS},
       Guid |-> TESTING_GUID, Name |-> n, Data |-> d] :
          s \in States, n \in {<<97, NUL>>, <<97, 98, NUL>>},
          d \in {<<1>>, <<1, 2, 3>>} }
RecordLists == UNION {[1..n -> Records] : n \in 0..MaxRecords}

\* The bytes one record takes, without the padding before it.
RecordBytes(rec) == VARIABLE_FIXED_BYTES + 2 * Len(rec.Name) + Len(rec.Data)

\* The cells of the records recs laid out from byte offset off on, each
\* aligned to 4 bytes with erased bytes before it.
RECURSIVE Layout(_, _)
Layout(recs, off) ==
    IF recs = <<>> THEN <<>>
    ELSE
      LET rec == Head(recs)
          pad == (4 - (off % 4)) % 4
      IN
      [k \in 1..pad |-> Cell("u8", 255)]
      \o << Cell("variable",
                 [Signature |-> VARIABLE_SIGNATURE, Status |-> rec.Status,
                  Attributes |-> rec.Attributes,
                  Namelen |-> 2 * Len(rec.Name), Datalen |-> Len(rec.Data),
                  Guid |-> rec.Guid]) >>
      \o [k \in 1..Len(rec.Name) |-> Cell("u16", rec.Name[k])]
      \o [k \in 1..Len(rec.Data) |-> Cell("u8", rec.Data[k])]
      \o Layout(Tail(recs), off + pad + RecordBytes(rec))

\* The bytes the layout of recs takes.
RECURSIVE LayoutBytes(_, _)
LayoutBytes(recs, off) ==
    IF recs = <<>> THEN off
    ELSE LayoutBytes(Tail(recs),
                     off + ((4 - (off % 4)) % 4) + RecordBytes(Head(recs)))

\* A header that passes every check, with the variable area declared as
\* size bytes.
GoodHeader(size) ==
    [ZeroVector |-> [k \in 1..16 |-> 0], FSGuid |-> FS_GUID, Signatur |-> FVH,
     Attributes |-> (0..7) \cup (9..15) \cup {18},
     HeaderLength |-> HEADER_LENGTH, Revision |-> REVISION,
     VSGuid |-> VS_GUID, VariableSize |-> size]

\* The declared sizes: less than one assumed record, one and two of them.
VariableSizes ==
    {200, ASSUMED_VARIABLE_BYTES, 2 * ASSUMED_VARIABLE_BYTES}

\* The well-formed image of the records recs in an area of size bytes: the
\* records one after the other, the rest of the area erased.
Image(recs, size) ==
    [Header |-> GoodHeader(size),
     area |-> Layout(recs, 0)
              \o << Cell("free", size - LayoutBytes(recs, 0)) >>,
     records |-> recs]

WellFormedImages ==
    { Image(p[1], p[2]) :
          p \in { q \in RecordLists \X VariableSizes :
                      LayoutBytes(q[1], 0) <= q[2] } }

\* The headers that fail one check each.
BadHeaders ==
    LET h == GoodHeader(ASSUMED_VARIABLE_BYTES) IN
    { [h EXCEPT !.ZeroVector[16] = 1],
      [h EXCEPT !.FSGuid = "fff12b8d-7696-4c8b-a985-2747075b4f51"],
      [h EXCEPT !.Signatur = "_FVG"],
      [h EXCEPT !.Attributes = @ \cup {8}],
      [h EXCEPT !.HeaderLength = HEADER_LENGTH + 1],
      [h EXCEPT !.Revision = REVISION + 1],
      [h EXCEPT !.VSGuid = "aaf32c78-947b-439a-a180-2e144ec37793"] }

\* The images with a bad header, over one record of every state.
BadHeaderImages ==
    { [Image(recs, ASSUMED_VARIABLE_BYTES) EXCEPT !.Header = h] :
          h \in BadHeaders, recs \in [1..1 -> Records] }

Images == WellFormedImages \cup BadHeaderImages

InitDecode ==
    /\ variables = <<>>
    /\ bootservices_exited = FALSE
    /\ edk2bytes \in Images
    /\ parsed = NotParsed

\* EDK2VariableStore::from_bytes(edk2bytes).
from_bytes ==
    /\ parsed = NotParsed
    /\ parsed' = from_bytes_result(edk2bytes)
    /\ UNCHANGED <<variables, bootservices_exited, edk2bytes>>

NextDecode == from_bytes

SpecDecode == InitDecode /\ [][NextDecode]_vars

\* ----------------------------------------------------------- properties
\* What request_set(r) returns in the current state, and the store it leaves.
Res(r) == request_set_result(variables, bootservices_exited, r)

\* The positions of the identity (name, guid) in a store.
Pos(vs, name, guid) ==
    {i \in 1..Len(vs) : vs[i].name = name /\ vs[i].guid = guid}

\* A store without the record at position i, the others in their order.
Without(vs, i) == SubSeq(vs, 1, i - 1) \o SubSeq(vs, i + 1, Len(vs))

\* The record passes the checks on name length, data length and attributes.
WellFormed(r) ==
    /\ Len(r.name) <= max_name_length
    /\ Len(r.data) <= max_data_length
    /\ r.attr \subseteq {BOOTSERVICE_ACCESS, RUNTIME_ACCESS, APPEND_WRITE}
    /\ (RUNTIME_ACCESS \in r.attr => BOOTSERVICE_ACCESS \in r.attr)

AuthFlags ==
    {AUTHENTICATED_WRITE_ACCESS, TIME_BASED_AUTHENTICATED_WRITE_ACCESS,
     ENHANCED_AUTHENTICATED_ACCESS}

\* C1: no two stored records have the same (name, GUID) identity, in any
\* state reached by request_set calls, before or after ExitBootServices.
C1_UniqueIdentity ==
    \A i, j \in 1..Len(variables) :
        (variables[i].name = variables[j].name
            /\ variables[i].guid = variables[j].guid) => i = j

\* Two records that share their name and differ in the GUID are stored, after
\* ExitBootServices.
C1_Witness ==
    /\ bootservices_exited
    /\ Len(variables) = 2
    /\ variables[1].name = variables[2].name
    /\ variables[1].guid # variables[2].guid

\* C2: a request_set that returns an error leaves the records, their data,
\* attributes and order, and bootservices_exited, as they were.
C2_ErrorLeavesStore ==
    \A r \in EfiVariable :
        LET res == Res(r) IN
        res.status # SUCCESS =>
            /\ res.variables = variables
            /\ res.bootservices_exited = bootservices_exited

\* A store of two records in which calls fail with each of the three errors,
\* one of them on a stored identity.
C2_Witness ==
    /\ Len(variables) = 2
    /\ \E r \in EfiVariable :
          /\ Pos(variables, r.name, r.guid) # {}
          /\ WellFormed(r)
          /\ Res(r).status = INVALID_PARAMETER
    /\ \E r \in EfiVariable : Res(r).status = UNSUPPORTED
    /\ \E r \in EfiVariable : Res(r).status = SECURITY_VIOLATION

\* The store after request_set(r), and after request_set(r) twice in a row.
Once(r) == Res(r).variables
Twice(r) ==
    request_set_result(Res(r).variables, Res(r).bootservices_exited, r).variables

C4_Original ==
    \A r \in EfiVariable :
        \A i \in Pos(variables, r.name, r.guid) :
            ( /\ APPEND_WRITE \in r.attr
              /\ r.data # <<>>
              /\ WellFormed(r)
              /\ r.attr \ {APPEND_WRITE} = variables[i].attr \ {APPEND_WRITE}
              /\ (bootservices_exited => RUNTIME_ACCESS \in r.attr) )
            => LET res == Res(r) IN
               /\ res.status = SUCCESS
               /\ Len(res.variables) = Len(variables)
               /\ res.variables[i].data = variables[i].data \o r.data
               /\ APPEND_WRITE \notin res.variables[i].attr

\* C5 as stated: request_set with empty data and the stored attributes plus
\* APPEND_WRITE on a stored identity returns success and leaves the store
\* unchanged.  Taken for the calls the phase allows.
C5_Original ==
    \A r \in EfiVariable :
        \A i \in Pos(variables, r.name, r.guid) :
            ( /\ r.data = <<>>
              /\ r.attr = variables[i].attr \cup {APPEND_WRITE}
              /\ (bootservices_exited => RUNTIME_ACCESS \in r.attr) )
            => LET res == Res(r) IN
               /\ res.status = SUCCESS
               /\ res.variables = variables

\* C6 as stated: no stored record has APPEND_WRITE in its attributes.
C6_Original ==
    \A i \in 1..Len(variables) : APPEND_WRITE \notin variables[i].attr

\* C7 as stated: request_set on a stored identity with attributes that
\* differ from the stored ones returns InvalidParameter and leaves the
\* record unchanged.
C7_Original ==
    \A r \in EfiVariable :
        \A i \in Pos(variables, r.name, r.guid) :
            r.attr # variables[i].attr
            => LET res == Res(r) IN
               /\ res.status = INVALID_PARAMETER
               /\ res.variables = variables

\* C7 as amended: request_set on a stored identity with attributes that
\* differ from the stored ones returns an error and leaves the record
\* unchanged; the error is InvalidParameter unless the incoming attributes
\* hold one of the authentication flags, which an earlier check rejects with
\* Unsupported or SecurityViolation.
C7_AttributeChange ==
    \A r \in EfiVariable :
        \A i \in Pos(variables, r.name, r.guid) :
            r.attr # variables[i].attr
            => LET res == Res(r) IN
               /\ res.status # SUCCESS
               /\ res.variables = variables
               /\ (r.attr \cap AuthFlags = {} => res.status = INVALID_PARAMETER)
               /\ (r.attr \cap AuthFlags # {} =>
                     res.status \in {INVALID_PARAMETER, UNSUPPORTED,
                                     SECURITY_VIOLATION})

\* A stored record and three calls on it with other attributes: one adds
\* RUNTIME_ACCESS, one adds APPEND_WRITE, one holds an authentication flag.
C7_Witness ==
    \E i \in 1..Len(variables) :
        /\ variables[i].attr = {BOOTSERVICE_ACCESS}
        /\ \E r \in EfiVariable :
              /\ Pos(variables, r.name, r.guid) = {i}
              /\ r.attr = {BOOTSERVICE_ACCESS, RUNTIME_ACCESS}
              /\ r.data # <<>>
              /\ Res(r).status = INVALID_PARAMETER
        /\ \E r \in EfiVariable :
              /\ Pos(variables, r.name, r.guid) = {i}
              /\ r.attr = {BOOTSERVICE_ACCESS, APPEND_WRITE}
              /\ Res(r).status = INVALID_PARAMETER
        /\ \E r \in EfiVariable :
              /\ Pos(variables, r.name, r.guid) = {i}
              /\ r.attr \cap AuthFlags # {}
              /\ Res(r).status = UNSUPPORTED

C9_Original ==
    bootservices_exited =>
        \A i \in 1..Len(variables) :
            RUNTIME_ACCESS \notin variables[i].attr =>
                \A r \in EfiVariable :
                    LET res == Res(r) IN
                    /\ \E j \in 1..Len(res.variables) :
                          res.variables[j] = variables[i]
                    /\ (r.name = variables[i].name /\ r.guid = variables[i].guid)
                       => res.status = INVALID_PARAMETER

\* C9 as amended: after ExitBootServices, every request_set leaves a stored
\* record without RUNTIME_ACCESS in the store with its data and attributes,
\* and every request_set that names it returns an error: InvalidParameter,
\* unless the incoming attributes hold one of the authentication flags, which
\* an earlier check rejects with Unsupported or SecurityViolation.
C9_RuntimeLocked ==
    bootservices_exited =>
        \A i \in 1..Len(variables) :
            RUNTIME_ACCESS \notin variables[i].attr =>
                \A r \in EfiVariable :
                    LET res == Res(r) IN
                    /\ \E j \in 1..Len(res.variables) :
                          res.variables[j] = variables[i]
                    /\ (r.name = variables[i].name /\ r.guid = variables[i].guid)
                       => /\ res.status # SUCCESS
                          /\ (r.attr \cap AuthFlags = {}
                                => res.status = INVALID_PARAMETER)
                          /\ (r.attr \cap AuthFlags # {}
                                => res.status \in {INVALID_PARAMETER, UNSUPPORTED,
                                                   SECURITY_VIOLATION})

\* After ExitBootServices the second stored record has no RUNTIME_ACCESS; a
\* call with its own attributes and new data is rejected, and so is a call
\* that would delete it, while a call deletes the record before it.
C9_Witness ==
    /\ bootservices_exited
    /\ Len(variables) = 2
    /\ RUNTIME_ACCESS \notin variables[2].attr
    /\ \E r \in EfiVariable :
          /\ Pos(variables, r.name, r.guid) = {2}
          /\ r.attr = variables[2].attr
          /\ r.data # <<>> /\ r.data # variables[2].data
          /\ Res(r).status = INVALID_PARAMETER
    /\ \E r \in EfiVariable :
          /\ Pos(variables, r.name, r.guid) = {2}
          /\ r.attr = variables[2].attr
          /\ r.data = <<>>
          /\ Res(r).status = INVALID_PARAMETER
    /\ \E r \in EfiVariable :
          /\ Pos(variables, r.name, r.guid) = {1}
          /\ Res(r).variables = <<variables[2]>>

\* C10: for a non-empty name, request_get returns the stored record when a
\* record with the identity is stored and bootservices_exited is false or
\* the record has RUNTIME_ACCESS, and NotFound in every other case.
C10_Get ==
    \A name \in Names \ {""}, guid \in Guids :
        LET g == request_get_result(variables, bootservices_exited, name, guid)
            P == Pos(variables, name, guid)
        IN
        IF \E i \in P :
              ~bootservices_exited \/ RUNTIME_ACCESS \in variables[i].attr
        THEN /\ g.status = SUCCESS
             /\ \A i \in P : g.var = variables[i]
        ELSE g.status = NOT_FOUND

\* After ExitBootServices a record without RUNTIME_ACCESS is stored and
\* hidden, and a record with RUNTIME_ACCESS is stored and returned.
C10_Witness ==
    /\ bootservices_exited
    /\ \E i, j \in 1..Len(variables) :
          /\ variables[i].name # "" /\ variables[j].name # ""
          /\ RUNTIME_ACCESS \notin variables[i].attr
          /\ RUNTIME_ACCESS \in variables[j].attr
          /\ request_get_result(variables, bootservices_exited,
                 variables[i].name, variables[i].guid).status = NOT_FOUND
          /\ request_get_result(variables, bootservices_exited,
                 variables[j].name, variables[j].guid).var = variables[j]

\* ------------------------------------------------------------ enumeration
\* The cursors request_get_next is called with.
Cursors == Names \X Guids

\* C11 (as stated): once bootservices_exited is true, neither request_get
\* nor request_get_next, for any cursor, the empty one included, returns a
\* record without RUNTIME_ACCESS.
C11_Original ==
    bootservices_exited =>
        \A c \in Cursors :
            LET g == request_get_result(variables, bootservices_exited,
                                        c[1], c[2])
                n == request_get_next_result(variables, c[1], c[2])
            IN
            /\ g.status = SUCCESS => RUNTIME_ACCESS \in g.var.attr
            /\ n.kind = "Found" => RUNTIME_ACCESS \in n.var.attr

\* C12 (as stated): with the records r1 .. rn in insertion order,
\* request_get_next with the empty name returns r1 (EndReached when the store
\* is empty), with the identity of ri it returns r(i+1), and with the
\* identity of rn it returns EndReached.
C12_Original ==
    LET n == Len(variables) IN
    /\ \A guid \in Guids :
          request_get_next_result(variables, "", guid) =
              IF n = 0 THEN [kind |-> "EndReached", var |-> NoVar]
              ELSE [kind |-> "Found", var |-> variables[1]]
    /\ \A i \in 1..n :
          request_get_next_result(variables, variables[i].name,
                                  variables[i].guid) =
              IF i < n THEN [kind |-> "Found", var |-> variables[i + 1]]
              ELSE [kind |-> "EndReached", var |-> NoVar]

\* C13: request_get_next with a non-empty previous name whose identity
\* (name, GUID) is not stored returns Invalid; this covers a name that is
\* stored under another GUID only, and a cursor whose record a request_set
\* has deleted since it was returned.
C13_InvalidCursor ==
    /\ \A c \in Cursors :
          c[1] # "" /\ Pos(variables, c[1], c[2]) = {} =>
              request_get_next_result(variables, c[1], c[2]).kind = "Invalid"
    /\ \A i \in 1..Len(variables) :
          variables[i].name # "" =>
              LET del == [variables[i] EXCEPT !.data = <<>>]
                  after == Res(del).variables
              IN
              Pos(after, del.name, del.guid) = {} =>
                  request_get_next_result(after, del.name, del.guid).kind =
                      "Invalid"

\* A name is stored under one GUID and the cursor names it under the other,
\* and a stored record that enumeration returns is deleted by a request_set
\* and then used as the cursor, with another record left in the store.
C13_Witness ==
    /\ Len(variables) = 2
    /\ \E c \in Cursors :
          /\ c[1] # ""
          /\ Pos(variables, c[1], c[2]) = {}
          /\ \E i \in 1..Len(variables) :
                variables[i].name = c[1] /\ variables[i].guid # c[2]
          /\ request_get_next_result(variables, c[1], c[2]).kind = "Invalid"
    /\ \E i \in 1..Len(variables) :
          LET del == [variables[i] EXCEPT !.data = <<>>] IN
          /\ variables[i].name # ""
          /\ request_get_next_result(variables, "", TESTING_GUID).var =
                 variables[i]
          /\ Res(del).status = SUCCESS
          /\ Len(Res(del).variables) = 1
          /\ request_get_next_result(Res(del).variables, del.name,
                                     del.guid).kind = "Invalid"

\* C14 (as stated): request_get with an empty name returns NotFound, for
\* every namespace GUID and every store state.
C14_Original ==
    \A guid \in Guids :
        request_get_result(variables, bootservices_exited, "", guid).status =
            NOT_FOUND

\* C14 (amended): request_get with an empty name returns InvalidParameter
\* and no record, for every namespace GUID and every store state, a record
\* with the empty name being stored or not.
C14_EmptyName ==
    \A guid \in Guids :
        request_get_result(variables, bootservices_exited, "", guid) =
            [status |-> INVALID_PARAMETER, var |-> NoVar]

\* A record with the empty name is stored, with RUNTIME_ACCESS and after
\* ExitBootServices, and request_get with its identity is refused.
C14_Witness ==
    /\ bootservices_exited
    /\ \E i \in 1..Len(variables) :
          /\ variables[i].name = ""
          /\ RUNTIME_ACCESS \in variables[i].attr
          /\ request_get_result(variables, bootservices_exited, "",
                 variables[i].guid).status = INVALID_PARAMETER

\* ------------------------------------------------ the validation pipeline
\* The two authentication bits whose combination is refused.
BothAuth ==
    {TIME_BASED_AUTHENTICATED_WRITE_ACCESS, ENHANCED_AUTHENTICATED_ACCESS}

\* C15 (as stated): request_set with a record whose attributes contain both
\* TIME_BASED_AUTHENTICATED_WRITE_ACCESS and ENHANCED_AUTHENTICATED_ACCESS
\* returns SecurityViolation whatever its name length, its data length and
\* its other attribute bits.
C15_Original ==
    \A r \in EfiVariableAttr :
        BothAuth \subseteq r.attr => Res(r).status = SECURITY_VIOLATION

\* C15 (amended): such a record is answered with SecurityViolation, the
\* store unchanged, when its name and data are within the limits and it has
\* neither HARDWARE_ERROR_RECORD nor AUTHENTICATED_WRITE_ACCESS, whatever
\* its other bits, the store and the phase; with a name or data over the
\* limit or with HARDWARE_ERROR_RECORD the answer is InvalidParameter, and
\* otherwise with AUTHENTICATED_WRITE_ACCESS it is Unsupported.
C15_SecurityViolation ==
    \A r \in EfiVariableAttr :
        BothAuth \subseteq r.attr =>
            /\ Res(r).variables = variables
            /\ Res(r).status =
                 IF \/ Len(r.name) > max_name_length
                    \/ Len(r.data) > max_data_length
                    \/ HARDWARE_ERROR_RECORD \in r.attr
                 THEN INVALID_PARAMETER
                 ELSE IF AUTHENTICATED_WRITE_ACCESS \in r.attr
                 THEN UNSUPPORTED
                 ELSE SECURITY_VIOLATION

\* After ExitBootServices a record is stored, and a write to its identity
\* with both bits, RUNTIME_ACCESS and no BOOTSERVICE_ACCESS is answered with
\* SecurityViolation, while the same write with HARDWARE_ERROR_RECORD is
\* answered with InvalidParameter.
C15_Witness ==
    /\ bootservices_exited
    /\ \E r \in EfiVariableAttr :
          /\ Pos(variables, r.name, r.guid) # {}
          /\ r.attr = BothAuth \cup {RUNTIME_ACCESS}
          /\ Res(r).status = SECURITY_VIOLATION
          /\ Res([r EXCEPT !.attr = @ \cup {HARDWARE_ERROR_RECORD}]).status =
                 INVALID_PARAMETER

\* The steps of the pipeline in the order of the claim, each a pair of
\* "the step fails for r in the current state" and the status it answers.
Steps(r) ==
    LET P == Pos(variables, r.name, r.guid) IN
    << <<Len(r.name) > max_name_length, INVALID_PARAMETER>>,
       <<Len(r.data) > max_data_length, INVALID_PARAMETER>>,
       <<HARDWARE_ERROR_RECORD \in r.attr, INVALID_PARAMETER>>,
       <<AUTHENTICATED_WRITE_ACCESS \in r.attr, UNSUPPORTED>>,
       <<BothAuth \subseteq r.attr, SECURITY_VIOLATION>>,
       <<ENHANCED_AUTHENTICATED_ACCESS \in r.attr, UNSUPPORTED>>,
       <<TIME_BASED_AUTHENTICATED_WRITE_ACCESS \in r.attr, UNSUPPORTED>>,
       <<RUNTIME_ACCESS \in r.attr /\ BOOTSERVICE_ACCESS \notin r.attr,
         INVALID_PARAMETER>>,
       <<\E i \in P : variables[i].attr # r.attr, INVALID_PARAMETER>>,
       <<P # {} /\ bootservices_exited /\ RUNTIME_ACCESS \notin r.attr,
         INVALID_PARAMETER>> >>

Failing(r) == LET S == Steps(r) IN {k \in 1..Len(S) : S[k][1]}

\* C16: the status of request_set is the one of the first step of the
\* pipeline that fails, the steps taken in the order of Steps, and a record
\* that fails no step is accepted.
C16_FirstFailingStep ==
    \A r \in EfiVariableAttr :
        LET S == Steps(r)
            F == {k \in 1..Len(S) : S[k][1]}
        IN
        Res(r).status =
            IF F = {} THEN SUCCESS
            ELSE S[CHOOSE k \in F : \A j \in F : k <= j][2]

\* After ExitBootServices, for one stored identity: a record that fails the
\* steps 4 and 5 is answered by step 4, one that fails only the last step
\* is answered by it, one that fails the steps 8 and 9 is answered, and one
\* that fails none is accepted.
C16_Witness ==
    /\ bootservices_exited
    /\ \E r \in EfiVariableAttr :
          /\ Failing(r) = {4, 5, 6, 7, 9, 10}
          /\ Res(r).status = UNSUPPORTED
    /\ \E r \in EfiVariableAttr :
          /\ Failing(r) = {10}
          /\ Res(r).status = INVALID_PARAMETER
    /\ \E r \in EfiVariableAttr :
          /\ Failing(r) = {8, 9}
          /\ Res(r).status = INVALID_PARAMETER
    /\ \E r \in EfiVariableAttr :
          /\ Pos(variables, r.name, r.guid) # {}
          /\ Failing(r) = {}
          /\ Res(r).status = SUCCESS

\* C17: every stored record that has RUNTIME_ACCESS has BOOTSERVICE_ACCESS,
\* and no stored record has AUTHENTICATED_WRITE_ACCESS,
\* ENHANCED_AUTHENTICATED_ACCESS, TIME_BASED_AUTHENTICATED_WRITE_ACCESS or
\* HARDWARE_ERROR_RECORD.
C17_StoredAttributes ==
    \A i \in 1..Len(variables) :
        /\ RUNTIME_ACCESS \in variables[i].attr =>
               BOOTSERVICE_ACCESS \in variables[i].attr
        /\ variables[i].attr \cap
               { AUTHENTICATED_WRITE_ACCESS, ENHANCED_AUTHENTICATED_ACCESS,
                 TIME_BASED_AUTHENTICATED_WRITE_ACCESS,
                 HARDWARE_ERROR_RECORD } = {}

\* Two records are stored, one with RUNTIME_ACCESS and one with no access
\* bit at all, and the writes that would break the rule are refused for a
\* stored identity: RUNTIME_ACCESS alone, and HARDWARE_ERROR_RECORD added to
\* the stored attributes.
C17_Witness ==
    /\ Len(variables) = 2
    /\ RUNTIME_ACCESS \in variables[1].attr
    /\ variables[2].attr = {}
    /\ \E r \in EfiVariableAttr :
          /\ Pos(variables, r.name, r.guid) = {2}
          /\ r.data = <<1>>
          /\ r.attr = {RUNTIME_ACCESS}
          /\ Res(r).status = INVALID_PARAMETER
          /\ Res([r EXCEPT !.attr = variables[2].attr \cup
                                        {HARDWARE_ERROR_RECORD}]).status =
                 INVALID_PARAMETER

\* --------------------------------------------------------------- limits
\* Every record of the store vs is within the limits of the store.
WithinLimits(vs) ==
    \A i \in 1..Len(vs) :
        /\ Len(vs[i].name) <= max_name_length
        /\ Len(vs[i].data) <= max_data_length

\* C18: every stored record has a name of at most max_name_length and data
\* of at most max_data_length, and so has every record of the store a write
\* with APPEND_WRITE to a stored identity leaves.
C18_Limits ==
    /\ WithinLimits(variables)
    /\ \A r \in EfiVariable :
          APPEND_WRITE \in r.attr /\ Pos(variables, r.name, r.guid) # {} =>
              WithinLimits(Res(r).variables)

\* A stored record has data of the full length max_data_length, and a write
\* with APPEND_WRITE and data of that length to its identity succeeds and
\* changes the store.
C18_Witness ==
    \E r \in EfiVariable :
        /\ APPEND_WRITE \in r.attr
        /\ Len(r.data) = max_data_length
        /\ \E i \in Pos(variables, r.name, r.guid) :
              Len(variables[i].data) = max_data_length
        /\ Res(r).status = SUCCESS
        /\ Res(r).variables # variables

\* -------------------------------------------------------- read after write
\* C19 (as stated): after a successful request_set of a record with
\* non-empty data and without APPEND_WRITE, for a new or a stored identity,
\* before or after ExitBootServices, request_get of the identity returns a
\* record with exactly the data and attributes supplied, and the store has
\* one record more for a new identity and as many as before for a stored one.
C19_Original ==
    \A r \in EfiVariable :
        r.data # <<>> /\ APPEND_WRITE \notin r.attr /\ Res(r).status = SUCCESS
        =>
        LET after == Res(r).variables
            g == request_get_result(after, bootservices_exited, r.name, r.guid)
        IN
        /\ g.status = SUCCESS
        /\ g.var.data = r.data
        /\ g.var.attr = r.attr
        /\ Len(after) = Len(variables) +
               (IF Pos(variables, r.name, r.guid) = {} THEN 1 ELSE 0)

\* ---------------------------------------------------------------- phase
\* C20: bootservices_exited is false in a newly created store, no
\* request_set and no request_query_variable_info call changes it, and once
\* it is true it is true in every later state.
C20_ExitOnce ==
    /\ ~bootservices_exited
    /\ [](/\ \A r \in EfiVariable :
                Res(r).bootservices_exited = bootservices_exited
          /\ request_query_variable_info_result(variables,
                 bootservices_exited).bootservices_exited =
                 bootservices_exited)
    /\ [][bootservices_exited => bootservices_exited']_vars

\* After ExitBootServices the store holds two records, and a further
\* request_set is accepted, changes the store and leaves the flag true.
C20_Witness ==
    /\ bootservices_exited
    /\ Len(variables) = 2
    /\ \E r \in EfiVariable :
          /\ Res(r).status = SUCCESS
          /\ Res(r).variables # variables
          /\ Res(r).bootservices_exited

\* ----------------------------------------------------------- get_variable
\* The arguments get_variable is called with: data_size of 0 ..
\* max_data_length + 1, no buffer or a buffer of one of these lengths, and
\* the attributes output absent or present.
DataSizes == 0..(max_data_length + 1)
Buffers == {NoData} \cup {Some([i \in 1..n |-> 0]) : n \in DataSizes}
AttributeOuts == {NoAttributes, Some({})}

\* What get_variable returns in the current state.
GetVar(c, attributes, data, data_size) ==
    get_variable_result(variables, bootservices_exited, c[1], c[2],
                        attributes, data, data_size)

\* The stored record request_get returns for the cursor c, as a set.
Readable(c) ==
    LET g == request_get_result(variables, bootservices_exited, c[1], c[2])
    IN IF g.status = SUCCESS THEN {g.var} ELSE {}

\* C24: get_variable on a stored, readable variable with data_size smaller
\* than the length of the stored data returns BUFFER_TOO_SMALL, sets
\* data_size to this length and leaves the caller's buffer, passed or not,
\* as it was.
C24_BufferTooSmall ==
    \A c \in Cursors, a \in AttributeOuts, b \in Buffers, n \in DataSizes :
        \A v \in Readable(c) :
            n < Len(v.data) =>
                LET res == GetVar(c, a, b, n) IN
                /\ res.status = BUFFER_TOO_SMALL
                /\ res.data_size = Len(v.data)
                /\ res.data = b

\* A record with data is stored and read with data_size 0, once without a
\* buffer and once with an empty one.
C24_Witness ==
    \E c \in Cursors :
        \E v \in Readable(c) :
            /\ Len(v.data) = 1
            /\ GetVar(c, NoAttributes, NoData, 0).status = BUFFER_TOO_SMALL
            /\ GetVar(c, NoAttributes, Some(<<>>), 0).data_size = 1

\* C25: whenever get_variable returns SUCCESS with an attributes output, the
\* attributes returned are the stored attributes without APPEND_WRITE.
C25_AppendCleared ==
    \A c \in Cursors, b \in Buffers, n \in DataSizes :
        LET res == GetVar(c, Some({}), b, n) IN
        res.status = SUCCESS =>
            /\ res.attributes.some
            /\ APPEND_WRITE \notin res.attributes.val
            /\ \A v \in Readable(c) :
                  res.attributes.val = v.attr \ {APPEND_WRITE}

\* A record created by a set that carried APPEND_WRITE is stored with the
\* bit and RUNTIME_ACCESS, and is read with SUCCESS after ExitBootServices.
C25_Witness ==
    /\ bootservices_exited
    /\ \E c \in Cursors :
          \E v \in Readable(c) :
              /\ APPEND_WRITE \in v.attr
              /\ LET res == GetVar(c, Some({}), Some(<<0>>), 1) IN
                 /\ res.status = SUCCESS
                 /\ res.attributes.val =
                        {BOOTSERVICE_ACCESS, RUNTIME_ACCESS}

\* C26 (as stated): for every stored variable and every combination of
\* buffer presence, buffer length and data_size, get_variable ends with
\* SUCCESS, BUFFER_TOO_SMALL, INVALID_PARAMETER or NOT_FOUND, and on SUCCESS
\* the buffer holds the stored data and data_size is its length.
C26_Original ==
    \A c \in Cursors, a \in AttributeOuts, b \in Buffers, n \in DataSizes :
        LET res == GetVar(c, a, b, n) IN
        /\ res.status \in
               {SUCCESS, BUFFER_TOO_SMALL, INVALID_PARAMETER, NOT_FOUND}
        /\ res.status = SUCCESS =>
               \A v \in Readable(c) :
                   /\ res.data = Some(v.data)
                   /\ res.data_size = Len(v.data)

\* ---------------------------------------------------------------- frame
\* The records of vs whose identity is not the one of r, in their order.
Others(vs, r) ==
    SelectSeq(vs, LAMBDA v : ~(v.name = r.name /\ v.guid = r.guid))

\* C27: a request_set on the identity of r leaves the records of every
\* other identity as they were and in their relative order; an identity
\* that was stored and still is keeps its position, and a newly stored one
\* is the last record.
C27_Frame ==
    \A r \in EfiVariable :
        LET after == Res(r).variables
            before == Pos(variables, r.name, r.guid)
        IN
        /\ Others(after, r) = Others(variables, r)
        /\ \A i \in Pos(after, r.name, r.guid) :
              IF before = {} THEN i = Len(after) /\ i = Len(variables) + 1
              ELSE i \in before

\* Two records with the same name under different GUIDs are stored: the
\* first is overwritten in place, the first is deleted and the second moves
\* up unchanged, and a third identity is created behind them.
C27_Witness ==
    /\ Len(variables) = 2
    /\ variables[1].name = variables[2].name
    /\ \E r \in EfiVariable :
          /\ Pos(variables, r.name, r.guid) = {1}
          /\ Res(r).variables = <<r, variables[2]>>
          /\ r # variables[1]
    /\ \E r \in EfiVariable :
          /\ Pos(variables, r.name, r.guid) = {1}
          /\ Res(r).variables = <<variables[2]>>
    /\ \E r \in EfiVariable :
          /\ Pos(variables, r.name, r.guid) = {}
          /\ Res(r).variables = <<variables[1], variables[2], r>>

\* C28 (as stated): no stored record has empty data, so request_get never
\* returns a record with data of length zero.
C28_Original ==
    /\ \A i \in 1..Len(variables) : variables[i].data # <<>>
    /\ \A c \in Cursors :
          LET g == request_get_result(variables, bootservices_exited,
                                      c[1], c[2])
          IN g.status = SUCCESS => g.var.data # <<>>

\* -------------------------------------------------------------- decoder
\* from_bytes has run on the image.
Decoded == parsed.status # "not parsed"

\* The parsed record v is the record rec the image was built from.
SameRecord(v, rec) ==
    /\ v.Status = rec.Status
    /\ v.Attributes = rec.Attributes
    /\ v.Guid = rec.Guid
    /\ v.Name = rec.Name
    /\ v.Data = rec.Data

\* C21 (as stated): for a well-formed image the full parsed structure holds
\* every record of the image, whatever the lengths of their names and data.
C21_Original ==
    Decoded /\ header_ok(edk2bytes.Header) =>
        /\ parsed.status = Ok
        /\ Len(parsed.store.Variables) = Len(edk2bytes.records)
        /\ \A k \in 1..Len(edk2bytes.records) :
              SameRecord(parsed.store.Variables[k], edk2bytes.records[k])

\* The name a sequence of code units stands for.
NameOf(units) ==
    IF units = <<97, NUL>> THEN "a"
    ELSE IF units = <<97, 98, NUL>> THEN "ab"
    ELSE "?"

\* C22: the active records from_bytes returns are the parsed records whose
\* state is VAR_ADDED, in their order in the image, each with the name,
\* GUID, data and attributes of the parsed record; the records in the other
\* states are not among them and stay in the full parsed structure, which
\* holds the records of the image as they are.
C22_ActiveRecords ==
    Decoded /\ parsed.status = Ok =>
        LET V == parsed.store.Variables
            added == {k \in 1..Len(V) : V[k].Status = VAR_ADDED}
            nth(j) == CHOOSE k \in added :
                          Cardinality({m \in added : m <= k}) = j
        IN
        /\ Len(V) <= Len(edk2bytes.records)
        /\ \A k \in 1..Len(V) : SameRecord(V[k], edk2bytes.records[k])
        /\ Len(parsed.vars) = Cardinality(added)
        /\ \A j \in 1..Len(parsed.vars) :
              parsed.vars[j] =
                  [name |-> NameOf(V[nth(j)].Name), guid |-> V[nth(j)].Guid,
                   data |-> V[nth(j)].Data, attr |-> V[nth(j)].Attributes]

\* Two records are parsed, the first ADDED_AND_DELETED and the second
\* VAR_ADDED with a name of two characters and three bytes of data, and the
\* second is the one active record.
C22_Witness ==
    /\ Decoded
    /\ parsed.status = Ok
    /\ Len(parsed.store.Variables) = 2
    /\ parsed.store.Variables[1].Status = ADDED_AND_DELETED
    /\ parsed.store.Variables[2].Status = VAR_ADDED
    /\ parsed.vars =
           << [name |-> "ab", guid |-> TESTING_GUID, data |-> <<1, 2, 3>>,
               attr |-> {BOOTSERVICE_ACCESS}] >>

\* C23 (as stated): from_bytes on an image that fails a check of the header
\* returns an error value with no records, and never ends in a fault.
C23_Original ==
    Decoded /\ edk2bytes.Header \in BadHeaders =>
        /\ parsed.status # Panicked
        /\ parsed.status # Ok
        /\ parsed.vars = <<>>
====
